---- MODULE Spec2Model ----
(***************************************************************************)
(* The SNS result-ingestion webhook of resume-ai: the POST handler of the  *)
(* webhook route, the signature validator it calls, and the Resume/Result  *)
(* tables it writes through Prisma.                                        *)
(*                                                                         *)
(* Strings the code takes apart (the certificate URL, the S3 key) are      *)
(* sequences of tokens; a JavaScript object is a record whose DOMAIN holds *)
(* exactly the properties that are present, so an absent property is a     *)
(* field that is not in the DOMAIN. Scores are opaque numerals (the        *)
(* handler does no arithmetic on them) and are written as strings.         *)
(***************************************************************************)
EXTENDS Integers, Sequences, FiniteSets, TLC

\* ----------------------------------------------------------------- bounds
MaxJobs == 1
NumHandlers == 2
MaxJobsFrame == 2   \* jobs where notifications arrive verified, one at a time

\* ------------------------------------------------------------ JS helpers
Undefined == "undefined"
Null == "null"

Has(obj, f) == f \in DOMAIN obj

\* obj.f for a numeric property: the value, or undefined
Get(obj, f) == IF Has(obj, f) THEN obj[f] ELSE Undefined

\* obj.f || d
GetOr(obj, f, d) == IF Has(obj, f) THEN obj[f] ELSE d

StartsWith(s, p) == Len(s) >= Len(p) /\ SubSeq(s, 1, Len(p)) = p

Includes(s, p) ==
  \E i \in 1..(Len(s) + 1) : i + Len(p) - 1 <= Len(s) /\ SubSeq(s, i, i + Len(p) - 1) = p

\* s.split(sep): the segments between the separators, each a token sequence
RECURSIVE Split(_, _)
Split(s, sep) ==
  IF \A i \in 1..Len(s) : s[i] # sep
  THEN <<s>>
  ELSE LET i == CHOOSE k \in 1..Len(s) : s[k] = sep /\ \A m \in 1..(k - 1) : s[m] # sep
       IN <<SubSeq(s, 1, i - 1)>> \o Split(SubSeq(s, i + 1, Len(s)), sep)

\* ------------------------------------------------------------------ URLs
UrlAws == <<"https://", "sns.", "us-east-1", ".amazonaws.com", "/", "cert.pem">>
UrlHttp == <<"http://", "sns.", "us-east-1", ".amazonaws.com", "/", "cert.pem">>
UrlEvilPath == <<"https://", "sns.", "evil.io", "/", "x", ".amazonaws.com", "/", "cert.pem">>
UrlEvilHost == <<"https://", "evil.io", "/", "cert.pem">>
SubscribeUrl == <<"https://", "sns.", "us-east-1", ".amazonaws.com", "/", "?Action=ConfirmSubscription">>

\* the host of a URL: the tokens between the scheme and the first "/"
UrlHost(url) == Split(Tail(url), "/")[1]

\* the certificate URL is served by the signing service: secure scheme, and a
\* host that is an sns. host of the amazonaws.com domain
TrustedSignerUrl(url) ==
  /\ Len(url) >= 1 /\ url[1] = "https://"
  /\ LET host == UrlHost(url)
     IN Len(host) >= 2 /\ host[1] = "sns." /\ host[Len(host)] = ".amazonaws.com"

\* sns-validator.ts line 77: the test the code makes on the certificate URL
CertUrlRejected(certUrl) ==
  \/ ~StartsWith(certUrl, <<"https://", "sns.">>)
  \/ ~Includes(certUrl, <<".amazonaws.com", "/">>)

\* --------------------------------------------------------------- S3 keys
KeyUser == <<"uploads", "/", "u1", "/", "170000-file.pdf">>
KeyGuest == <<"resumes", "/", "guest", "/", "170000-file.pdf">>
KeyBadPrefix == <<"tmp", "/", "u1", "/", "170000-file.pdf">>
KeyNoOwner == <<"uploads">>
KeyEmptyOwner == <<"uploads", "/", "/", "170000-file.pdf">>

NoUserId == <<>>
Guest == <<"guest">>
UserU1 == <<"u1">>

\* extractUserIdFromS3Key: parts[1] of the split key, or null. The payload is
\* passed whole: a payload without file_key makes s3Key.split throw, which the
\* function catches and turns into null. null and "" are both falsy for the
\* caller and are both NoUserId here.
extractUserIdAnyPrefix(payload) ==
  IF ~Has(payload, "file_key") THEN NoUserId
  ELSE LET parts == Split(payload.file_key, "/")
       IN IF Len(parts) >= 2 THEN parts[2] ELSE NoUserId
extractUserIdFromS3Key(payload) ==
  IF ~Has(payload, "file_key") THEN NoUserId
  ELSE LET parts == Split(payload.file_key, "/")
       IN IF Len(parts) >= 2 /\ (parts[1] = <<"uploads">> \/ parts[1] = <<"resumes">>)
          THEN parts[2]
          ELSE NoUserId

\* -------------------------------------------------------------- payloads
\* The results object of a processing_completed payload. Full carries every
\* property; Sparse carries overall_score alone (every optional property of
\* ProcessingCompletedPayload.results is absent).
Scores == {"71", "82"}

SectionScoresOf(v) ==
  [contact_information |-> v, professional_summary |-> v, work_experience |-> v,
   education |-> v, skills |-> v, formatting |-> v]

ResultsFull(v) ==
  [overall_score |-> v, section_scores |-> SectionScoresOf(v),
   ats_compatibility |-> v, content_quality |-> v, keyword_density |-> v,
   recommendations |-> <<v>>, keywords_found |-> <<v>>,
   improvement_areas |-> <<v>>, strengths |-> <<v>>]

ResultsSparse(v) == [overall_score |-> v]

ResultsSet == {ResultsFull(v) : v \in Scores} \cup {ResultsSparse("82")}

KnownEvents == {"processing_started", "processing_completed", "processing_error"}
EventTypes == KnownEvents \cup {"processing_archived"}

\* ------------------------------------------------- the Resume/Result store
NumericColumns ==
  {"score", "atsScore", "contentScore", "keywordDensity", "contactScore",
   "summaryScore", "experienceScore", "educationScore", "skillsScore",
   "formattingScore"}
ListColumns == {"extractedSkills", "recommendations", "strengths", "improvementAreas"}

\* part_011 lines 170-179 and 192-229: the data object both branches of the
\* upsert are given. A property read off an absent object is undefined.
ResultData(results) ==
  LET sectionScores == GetOr(results, "section_scores", [none |-> TRUE])
  IN [score |-> Get(results, "overall_score"),
      atsScore |-> Get(results, "ats_compatibility"),
      contentScore |-> Get(results, "content_quality"),
      keywordDensity |-> Get(results, "keyword_density"),
      contactScore |-> Get(sectionScores, "contact_information"),
      summaryScore |-> Get(sectionScores, "professional_summary"),
      experienceScore |-> Get(sectionScores, "work_experience"),
      educationScore |-> Get(sectionScores, "education"),
      skillsScore |-> Get(sectionScores, "skills"),
      formattingScore |-> Get(sectionScores, "formatting"),
      extractedSkills |-> GetOr(results, "keywords_found", <<>>),
      recommendations |-> GetOr(results, "recommendations", <<>>),
      strengths |-> GetOr(results, "strengths", <<>>),
      improvementAreas |-> GetOr(results, "improvement_areas", <<>>)]

\* Prisma create: an undefined value of a nullable column is stored as NULL
PrismaCreateResult(resumeId, data) ==
  [c \in DOMAIN data \cup {"resumeId"} |->
     IF c = "resumeId" THEN resumeId
     ELSE IF c \in NumericColumns /\ data[c] = Undefined THEN Null
     ELSE data[c]]

\* Prisma update: an undefined value in data leaves the column as it is
PrismaUpdateResult(row, data) ==
  [c \in DOMAIN row |->
     IF c = "resumeId" THEN row.resumeId
     ELSE IF c \in NumericColumns /\ data[c] = Undefined THEN row[c]
     ELSE data[c]]

\* tx.result.upsert({ where: { resumeId }, create, update })
ResultUpsertAlwaysCreate(table, resumeId, data) ==
  table \cup {PrismaCreateResult(resumeId, data)}
ResultUpsert(table, resumeId, data) ==
  IF \E r \in table : r.resumeId = resumeId
  THEN {IF r.resumeId = resumeId THEN PrismaUpdateResult(r, data) ELSE r : r \in table}
  ELSE table \cup {PrismaCreateResult(resumeId, data)}

\* resume.update({ where: { id }, data: { status } })
ResumeUpdateStatusByKey(table, id, status) ==
  {IF \E f \in table : f.id = id /\ f.s3Key = r.s3Key
   THEN [r EXCEPT !.status = status] ELSE r : r \in table}
ResumeUpdateStatusUnlessCompleted(table, id, status) ==
  {IF r.id = id /\ r.status # "COMPLETED" THEN [r EXCEPT !.status = status] ELSE r : r \in table}
ResumeUpdateStatus(table, id, status) ==
  {IF r.id = id THEN [r EXCEPT !.status = status] ELSE r : r \in table}

\* resume.findFirst({ where: { s3Key, userId: userId === "guest" ? null : userId } }):
\* the rows the where clause selects. A NULL userId column is NoUserId.
ResumeMatchesKeyOnly(table, s3Key, userId) == {r \in table : r.s3Key = s3Key}
ResumeMatchesOwnerOnly(table, s3Key, userId) ==
  {r \in table : r.userId = (IF userId = Guest THEN NoUserId ELSE userId)}
ResumeMatches(table, s3Key, userId) ==
  {r \in table : r.s3Key = s3Key /\ r.userId = (IF userId = Guest THEN NoUserId ELSE userId)}

\* the status each handler writes
HandlerStatusNoFailed(eventType) ==
  IF eventType = "processing_completed" THEN "COMPLETED" ELSE "PROCESSING"
HandlerStatusRequeues(eventType) ==
  CASE eventType = "processing_started" -> "PROCESSING"
    [] eventType = "processing_completed" -> "COMPLETED"
    [] OTHER -> "PENDING"
HandlerStatus(eventType) ==
  CASE eventType = "processing_started" -> "PROCESSING"
    [] eventType = "processing_completed" -> "COMPLETED"
    [] OTHER -> "FAILED"

\* ------------------------------------------------------------- envelopes
TrustedTopic == "arn:aws:sns:us-east-1:1:resume-results"
OtherTopic == "arn:aws:sns:us-east-1:1:other"
EnvelopeTypes == {"Notification", "SubscriptionConfirmation", "UnsubscribeConfirmation", "Bogus"}

\* a value on a line of the signed text
Str(s) == [s |-> s]
Url(u) == [u |-> u]
\* the newline character, and a field name, as characters of the signed text
NL == [nl |-> TRUE]
FieldName(name) == [name |-> name]

\* name + "\n" + value (sns-validator.ts lines 98-119)
LineNoNewline(name, value) == <<FieldName(name), value>>
Line(name, value) == <<FieldName(name), NL, value>>

\* fields.join("\n")
RECURSIVE Join(_)
Join(fields) ==
  IF fields = <<>> THEN <<>>
  ELSE IF Len(fields) = 1 THEN fields[1]
  ELSE fields[1] \o <<NL>> \o Join(Tail(fields))

\* sns-validator.ts lines 93-122: the text the signature is verified over, as
\* the sequence of its characters, a name and a value being one character
\* each; "" is <<>>
StringToSign(message) ==
  IF message.Type = "Notification"
  THEN LET fields ==
             <<Line("Message", message.Message), Line("MessageId", Str(message.MessageId))>>
             \o (IF Has(message, "Subject") /\ message.Subject # ""
                 THEN <<Line("Subject", Str(message.Subject))>> ELSE <<>>)
             \o <<Line("Timestamp", Str(message.Timestamp)),
                  Line("TopicArn", Str(message.TopicArn)),
                  Line("Type", Str(message.Type))>>
       IN Join(fields) \o <<NL>>
  ELSE IF message.Type = "SubscriptionConfirmation" \/ message.Type = "UnsubscribeConfirmation"
  THEN LET fields ==
             <<Line("Message", message.Message), Line("MessageId", Str(message.MessageId)),
               Line("SubscribeURL", Url(GetOr(message, "SubscribeURL", <<>>))),
               Line("Timestamp", Str(message.Timestamp)),
               Line("Token", Str(GetOr(message, "Token", ""))),
               Line("TopicArn", Str(message.TopicArn)), Line("Type", Str(message.Type))>>
       IN Join(fields) \o <<NL>>
  ELSE <<>>

\* RSA-SHA1: a signature is the pair of the key that made it and the text it
\* was made over; a certificate carries the public key of its owner
AwsKey == "aws"
EvilKey == "evil"
SignatureBy(key, text) == [key |-> key, text |-> text]

\* the certificate a host serves: the signing service serves its own, any
\* other host whatever its owner wants
CertServedAt(url) == IF TrustedSignerUrl(url) THEN AwsKey ELSE EvilKey

\* what the certificate fetch can come to: a network error, a non-success
\* status, a body that is no certificate, the host's certificate
FetchOutcomes == {"error", "notok", "garbage", "cert"}

\* sns-validator.ts lines 83-135: from the fetch result to the verdict, inside
\* the try block: "threw", "true" or "false"
VerifyFetchedKeyOnly(message, outcome) ==
  IF outcome = "error" THEN "threw"
  ELSE IF outcome = "notok" THEN "false"
  ELSE IF outcome = "garbage" THEN "threw"
  ELSE IF ~Has(message, "Signature") THEN "threw"
  ELSE IF message.Signature.key = CertServedAt(message.SigningCertURL)
       THEN "true" ELSE "false"
VerifyFetched(message, outcome) ==
  IF outcome = "error" THEN "threw"
  ELSE IF outcome = "notok" THEN "false"
  ELSE IF outcome = "garbage" THEN "threw"
  ELSE IF ~Has(message, "Signature") THEN "threw"
  ELSE IF /\ message.Signature.key = CertServedAt(message.SigningCertURL)
          /\ message.Signature.text = StringToSign(message)
       THEN "true" ELSE "false"

\* sns-validator.ts lines 74-80, before the fetch: "threw" (no SigningCertURL
\* to call startsWith on), "false" (URL refused) or "fetch"
BeforeFetch(message) ==
  IF ~Has(message, "SigningCertURL") THEN "threw"
  ELSE IF CertUrlRejected(message.SigningCertURL) THEN "false"
  ELSE "fetch"

\* sns-validator.ts lines 136-139: the catch block of validateSNSSignature
CatchRethrow(verdict) == verdict
CatchValidate(verdict) == IF verdict = "threw" THEN "false" ELSE verdict

\* part_011 lines 33-34: the topic check
TopicRefusedNever(expectedTopicArn_, message) == FALSE
TopicRefusedWhenUnset(expectedTopicArn_, message) ==
  message.TopicArn # expectedTopicArn_
TopicRefused(expectedTopicArn_, message) ==
  expectedTopicArn_ # "" /\ message.TopicArn # expectedTopicArn_

\* parseSNSPayload: JSON.parse(message.Message), null when it throws
NullPayload == [isNull |-> TRUE]
parseSNSPayload(message) ==
  IF message.Message.json THEN message.Message.value ELSE NullPayload

\* ---------------------------------------------------------------- inputs
NotJson == [json |-> FALSE]
Json(value) == [json |-> TRUE, value |-> value]

InputKeys == {KeyUser, KeyGuest, KeyBadPrefix, KeyNoOwner, KeyEmptyOwner}

PayloadsOf(eventType) ==
  LET base == {[event_type |-> eventType]}
                \cup {[event_type |-> eventType, file_key |-> k] : k \in InputKeys}
  IN IF eventType = "processing_completed"
     THEN base \cup {[event_type |-> eventType, file_key |-> k, results |-> r] :
                       k \in {KeyUser, KeyGuest}, r \in ResultsSet}
     ELSE base

Messages == {NotJson} \cup {Json(p) : p \in UNION {PayloadsOf(e) : e \in EventTypes}}

DefaultMessage == Json([event_type |-> "processing_started", file_key |-> KeyUser])

Unsigned(type, topic, message) ==
  [Type |-> type, MessageId |-> "m-1", TopicArn |-> topic, Message |-> message,
   Timestamp |-> "t-1", SignatureVersion |-> "1"]

CertUrls == {UrlAws, UrlHttp, UrlEvilPath, UrlEvilHost}

\* the optional properties an envelope may carry
CertVariants(e) == {e} \cup {e @@ [SigningCertURL |-> u] : u \in CertUrls}

\* the signatures an envelope may arrive with: the signing service's over the
\* envelope, a stranger's over the envelope, the service's over the empty text,
\* the service's over another text
SignaturesFor(e) ==
  {SignatureBy(AwsKey, StringToSign(e)), SignatureBy(EvilKey, StringToSign(e)),
   SignatureBy(AwsKey, <<>>), SignatureBy(AwsKey, Line("Message", NotJson) \o <<NL>>)}

Signed(e, sigs) == {e @@ [Signature |-> s] : s \in sigs}

\* the envelopes without a certificate URL or a signature: every type on
\* either topic, a confirmation with and without its SubscribeURL
Headers(topic) ==
  {Unsigned(t, topic, DefaultMessage) : t \in EnvelopeTypes}
  \cup {Unsigned(t, topic, DefaultMessage) @@ [SubscribeURL |-> SubscribeUrl] :
          t \in {"SubscriptionConfirmation", "UnsubscribeConfirmation"}}

\* On the trusted topic: every certificate URL with the service's signature,
\* every signature with the URLs the code fetches from, and the service's URL
\* with no signature. On the other topic: the service's URL with the service's
\* and a stranger's signature.
HeaderEnvelopes ==
  {e @@ [SigningCertURL |-> UrlAws] : e \in Headers(TrustedTopic)} \cup
  UNION {Signed(e, {SignatureBy(AwsKey, StringToSign(e))}) :
           e \in UNION {CertVariants(s) : s \in Headers(TrustedTopic)}}
  \cup UNION {Signed(e @@ [SigningCertURL |-> u], SignaturesFor(e)) :
                e \in Headers(TrustedTopic), u \in {UrlAws, UrlEvilPath}}
  \cup UNION {Signed(e @@ [SigningCertURL |-> UrlAws],
                     {SignatureBy(AwsKey, StringToSign(e)), SignatureBy(EvilKey, StringToSign(e))}) :
                e \in Headers(OtherTopic)}

NotificationEnvelopes ==
  UNION {Signed(e @@ [SigningCertURL |-> UrlAws], {SignatureBy(AwsKey, StringToSign(e))}) :
           e \in {Unsigned("Notification", TrustedTopic, m) : m \in Messages}}

\* a request body: text that is no JSON, or an envelope
Unparseable == [ok |-> FALSE]
Parsed(envelope) == [ok |-> TRUE, value |-> envelope]
Bodies == {Unparseable} \cup {Parsed(e) : e \in HeaderEnvelopes \cup NotificationEnvelopes}

\* ----------------------------------------------------------------- state
VARIABLES
  expectedTopicArn,  \* process.env.AWS_SNS_TOPIC_ARN ("" when not set)
  resumes,           \* the Resume table: rows [id, s3Key, userId, status]
  results,           \* the Result table: rows keyed by resumeId
  call,              \* per handler: the POST invocation it is running
  lastApplied,       \* per job: the last notification applied to it and answered 200
  completedJobs,     \* the jobs a completion transaction has committed for
  signing,           \* the envelope validateSNSSignature is applied to by itself
  lastWrite          \* per job: the event whose write committed last, and the
                     \* results of the completion that committed last

vars == <<expectedTopicArn, resumes, results, call, lastApplied, completedJobs, signing, lastWrite>>

Handlers == 1..NumHandlers
JobIds == 1..(IF MaxJobs > MaxJobsFrame THEN MaxJobs ELSE MaxJobsFrame)

Store == [resumes |-> resumes, results |-> results]

\* a handler with no invocation in progress
IdleCall ==
  [method |-> "POST", respBody |-> [none |-> TRUE],
   pc |-> "idle", body |-> Unparseable, resp |-> 0, verified |-> "none",
   userId |-> NoUserId, resumeId |-> 0, certFetches |-> 0, confFetches |-> 0,
   dbReads |-> 0, dbWrites |-> 0, certOutcome |-> "none", threw |-> "none",
   dbCalls |-> 0,                          \* store calls made, answered or failed
   confUrl |-> <<>>, confOutcome |-> "none",  \* the confirmation fetch
   before |-> [resumes |-> {}, results |-> {}]]  \* the store when the call came

NothingApplied == [event |-> "none"]

\* no write has committed for the job, no completion has
NoCompletion == [none |-> TRUE]
NothingWritten == [event |-> "none", completion |-> NoCompletion]

\* validateSNSSignature is not being applied by itself
NoSigning == [phase |-> "none"]

Init ==
  /\ expectedTopicArn \in {"", TrustedTopic}
  /\ resumes = {}
  /\ results = {}
  /\ call = [h \in Handlers |-> IdleCall]
  /\ lastApplied = [j \in JobIds |-> NothingApplied]
  /\ completedJobs = {}
  /\ signing = NoSigning
  /\ lastWrite = [j \in JobIds |-> NothingWritten]

AllIdle == \A h \in Handlers : call[h].pc = "idle"

\* NextResponse.json(..., { status })
Respond(c, status) == [c EXCEPT !.pc = "done", !.resp = status]

\* the catch block of POST (part_011 lines 110-113)
Uncaught(c, what) == [c EXCEPT !.pc = "done", !.threw = what]
Caught(c, what) == [c EXCEPT !.pc = "done", !.resp = 500, !.threw = what]

\* part_011 line 36: the status a refused topic is answered with
TopicRefusedStatus == 403

Envelope(c) == c.body.value
Payload(c) == parseSNSPayload(Envelope(c))

\* part_011 lines 46-109: what POST does once the signature is accepted, up to
\* its next await
AfterVerifiedDispatchAll(c) ==
  LET m == Envelope(c)
  IN IF m.Type = "SubscriptionConfirmation"
     THEN IF Has(m, "SubscribeURL") /\ m.SubscribeURL # <<>>
          THEN [c EXCEPT !.pc = "conf", !.confFetches = @ + 1, !.confUrl = m.SubscribeURL]
          ELSE Respond(c, 400)
     ELSE IF m.Type = "Notification"
     THEN LET payload == parseSNSPayload(m)
          IN IF payload = NullPayload THEN Respond(c, 400)
             ELSE LET userId == extractUserIdFromS3Key(payload)
                  IN IF userId = NoUserId THEN Respond(c, 400)
                     ELSE [c EXCEPT !.pc = "find", !.userId = userId]
     ELSE Respond(c, 400)
AfterVerifiedAcceptsAnyType(c) ==
  LET m == Envelope(c)
  IN IF m.Type = "SubscriptionConfirmation"
     THEN IF Has(m, "SubscribeURL") /\ m.SubscribeURL # <<>>
          THEN [c EXCEPT !.pc = "conf", !.confFetches = @ + 1, !.confUrl = m.SubscribeURL]
          ELSE Respond(c, 400)
     ELSE IF m.Type = "Notification"
     THEN LET payload == parseSNSPayload(m)
          IN IF payload = NullPayload THEN Respond(c, 400)
             ELSE LET userId == extractUserIdFromS3Key(payload)
                  IN IF userId = NoUserId THEN Respond(c, 400)
                     ELSE IF Get(payload, "event_type") \in KnownEvents
                     THEN [c EXCEPT !.pc = "find", !.userId = userId]
                     ELSE Respond(c, 200)
     ELSE Respond(c, 200)
AfterVerified(c) ==
  LET m == Envelope(c)
  IN IF m.Type = "SubscriptionConfirmation"
     THEN IF Has(m, "SubscribeURL") /\ m.SubscribeURL # <<>>
          THEN [c EXCEPT !.pc = "conf", !.confFetches = @ + 1, !.confUrl = m.SubscribeURL]
          ELSE Respond(c, 400)
     ELSE IF m.Type = "Notification"
     THEN LET payload == parseSNSPayload(m)
          IN IF payload = NullPayload THEN Respond(c, 400)
             ELSE LET userId == extractUserIdFromS3Key(payload)
                  IN IF userId = NoUserId THEN Respond(c, 400)
                     ELSE IF Get(payload, "event_type") \in KnownEvents
                     THEN [c EXCEPT !.pc = "find", !.userId = userId]
                     ELSE Respond(c, 200)
     ELSE Respond(c, 400)

\* part_011 lines 40-44: the verdict of validateSNSSignature, and on
\* acceptance the rest of POST up to its next await. A verdict that is no
\* boolean is an exception that left validateSNSSignature.
AfterValidateAcceptAll(c, verdict) ==
  AfterVerified([c EXCEPT !.verified = verdict])
AfterValidate(c, verdict) ==
  LET c1 == [c EXCEPT !.verified = verdict]
  IN IF verdict = "threw" THEN Caught(c1, "validate")
     ELSE IF verdict = "false" THEN Respond(c1, 403)
     ELSE AfterVerified(c1)

\* --------------------------------------------------------------- actions
\* A POST arrives at handler h and runs to its first fetch: req.json(), the
\* topic check, and validateSNSSignature up to its fetch (part_011 lines 22-40,
\* sns-validator.ts lines 74-83). Nothing shared is read or written on the way.
PostStartUnverified(c) ==
  IF ~c.body.ok THEN Caught(c, "json")
  ELSE IF TopicRefused(expectedTopicArn, Envelope(c)) THEN Respond(c, TopicRefusedStatus)
  ELSE AfterVerified(c)
PostStart(c) ==
  IF ~c.body.ok THEN Caught(c, "json")
  ELSE IF TopicRefused(expectedTopicArn, Envelope(c)) THEN Respond(c, TopicRefusedStatus)
  ELSE LET pre == BeforeFetch(Envelope(c))
       IN IF pre = "fetch"
          THEN [c EXCEPT !.pc = "cert", !.certFetches = @ + 1]
          ELSE AfterValidate(c, CatchValidate(pre))

Deliver(h) ==
  /\ call[h].pc = "idle"
  /\ \E body \in Bodies :
       call' = [call EXCEPT ![h] = PostStart([IdleCall EXCEPT !.body = body, !.before = Store])]
  /\ UNCHANGED <<expectedTopicArn, resumes, results, lastApplied, completedJobs, signing, lastWrite>>

\* sns-validator.ts lines 83-139: the certificate fetch returns
CertFetched(h) ==
  LET c == call[h]
  IN /\ c.pc = "cert"
     /\ \E outcome \in FetchOutcomes :
          call' = [call EXCEPT ![h] =
            AfterValidate([c EXCEPT !.certOutcome = outcome],
                          CatchValidate(VerifyFetched(Envelope(c), outcome)))]
     /\ UNCHANGED <<expectedTopicArn, resumes, results, lastApplied, completedJobs, signing, lastWrite>>

\* confirmSNSSubscription (sns-validator.ts lines 146-159): true when the GET
\* came back with a success status, false when it failed or came back without
confirmSNSSubscription(outcome) == outcome = "ok"

\* part_011 lines 53-59: the status the confirmation is answered with
ConfirmStatusAlwaysOk(confirmed) == 200
ConfirmStatus(confirmed) == IF confirmed THEN 200 ELSE 500

\* confirmSNSSubscription returns: part_011 lines 51-59
ConfFetched(h) ==
  LET c == call[h]
  IN /\ c.pc = "conf"
     /\ \E outcome \in {"error", "notok", "ok"} :
          call' = [call EXCEPT ![h] =
            Respond([c EXCEPT !.confOutcome = outcome], ConfirmStatus(confirmSNSSubscription(outcome)))]
     /\ UNCHANGED <<expectedTopicArn, resumes, results, lastApplied, completedJobs, signing, lastWrite>>

NoRow == [id |-> 0]

\* prisma.resume.findFirst returns (part_011 lines 125-135, 158-179, 257-267)
FindFirst(h) ==
  LET c == call[h]
      payload == Payload(c)
      rows == ResumeMatches(resumes, payload.file_key, c.userId)
  IN /\ c.pc = "find"
     /\ \E dbUp \in BOOLEAN, row \in rows \cup {NoRow} :
          /\ (row = NoRow) = (rows = {})
          /\ call' = [call EXCEPT ![h] =
               LET c1 == [c EXCEPT !.dbReads = @ + 1, !.dbCalls = @ + 1]
               IN IF ~dbUp THEN Caught(c1, "db")
                  ELSE IF row = NoRow THEN Respond(c1, 200)
                  ELSE IF payload.event_type # "processing_completed"
                  THEN [c1 EXCEPT !.pc = "update", !.resumeId = row.id]
                  ELSE IF ~Has(payload, "results")
                  THEN Caught([c1 EXCEPT !.resumeId = row.id], "type")
                  ELSE [c1 EXCEPT !.pc = "tx", !.resumeId = row.id]]
     /\ UNCHANGED <<expectedTopicArn, resumes, results, lastApplied, completedJobs, signing, lastWrite>>

\* prisma.resume.update returns (part_011 lines 137-140, 270-273)
UpdateStatus(h) ==
  LET c == call[h]
  IN /\ c.pc = "update"
     /\ \E dbUp \in BOOLEAN :
          IF dbUp
          THEN /\ resumes' = ResumeUpdateStatus(resumes, c.resumeId,
                                                HandlerStatus(Payload(c).event_type))
               /\ lastWrite' = [lastWrite EXCEPT ![c.resumeId].event = Payload(c).event_type]
               /\ call' = [call EXCEPT ![h] =
                    Respond([c EXCEPT !.dbWrites = @ + 1, !.dbCalls = @ + 1], 200)]
          ELSE /\ resumes' = resumes
               /\ lastWrite' = lastWrite
               /\ call' = [call EXCEPT ![h] = Caught([c EXCEPT !.dbCalls = @ + 1], "db")]
     /\ UNCHANGED <<expectedTopicArn, results, lastApplied, completedJobs, signing>>

\* part_011 lines 184-231: what the transaction writes when it commits
TransactionStatusOnly(store, resumeId, data) ==
  [store EXCEPT !.resumes = ResumeUpdateStatus(@, resumeId, HandlerStatus("processing_completed"))]
Transaction(store, resumeId, data) ==
  [resumes |-> ResumeUpdateStatus(store.resumes, resumeId, HandlerStatus("processing_completed")),
   results |-> ResultUpsert(store.results, resumeId, data)]

\* prisma.$transaction whose callback threw (part_011 lines 182-232): what
\* tx.resume.update wrote is rolled back with the rest
StatusUpdateKept(store, resumeId) ==
  [store EXCEPT !.resumes = ResumeUpdateStatus(@, resumeId, HandlerStatus("processing_completed"))]
RolledBack(store, resumeId) == store

\* prisma.$transaction returns (part_011 lines 182-232): committed whole, or
\* rolled back whole
CommitTransaction(h) ==
  LET c == call[h]
  IN /\ c.pc = "tx"
     /\ \E dbUp \in BOOLEAN :
          IF dbUp
          THEN LET after == Transaction(Store, c.resumeId, ResultData(Payload(c).results))
               IN /\ resumes' = after.resumes
                  /\ results' = after.results
                  /\ completedJobs' = completedJobs \cup {c.resumeId}
                  /\ lastWrite' = [lastWrite EXCEPT ![c.resumeId] =
                       [event |-> "processing_completed", completion |-> Payload(c).results]]
                  /\ call' = [call EXCEPT ![h] =
                       Respond([c EXCEPT !.dbWrites = @ + 1, !.dbCalls = @ + 1], 200)]
          ELSE LET after == RolledBack(Store, c.resumeId)
               IN /\ resumes' = after.resumes
                  /\ results' = after.results
                  /\ completedJobs' = completedJobs
                  /\ lastWrite' = lastWrite
                  /\ call' = [call EXCEPT ![h] = Caught([c EXCEPT !.dbCalls = @ + 1], "db")]
     /\ UNCHANGED <<expectedTopicArn, lastApplied, signing>>

\* what a finished invocation applied to its job
AppliedBy(c) ==
  LET payload == Payload(c)
  IN IF payload.event_type = "processing_completed"
     THEN [event |-> payload.event_type, results |-> payload.results]
     ELSE [event |-> payload.event_type]

Applied(c) == c.pc = "done" /\ c.resp = 200 /\ c.resumeId # 0

\* the response leaves; the handler is free again
Return(h) ==
  LET c == call[h]
  IN /\ c.pc = "done"
     /\ call' = [call EXCEPT ![h] = IdleCall]
     /\ lastApplied' = IF Applied(c)
                       THEN [lastApplied EXCEPT ![c.resumeId] = AppliedBy(c)]
                       ELSE lastApplied
     /\ UNCHANGED <<expectedTopicArn, resumes, results, completedJobs, signing, lastWrite>>

\* part_011 lines 289-295: what GET answers
LivenessPayload ==
  [status |-> "ok", endpoint |-> "SNS Webhook",
   message |-> "This endpoint receives SNS notifications from Lambda"]

LivenessForbidden(c) == [c EXCEPT !.pc = "done", !.resp = 403]
LivenessResponse(c) == [c EXCEPT !.pc = "done", !.resp = 200, !.respBody = LivenessPayload]

\* a GET arrives at handler h and is answered (part_011 lines 289-295): the
\* handler takes no argument and awaits nothing
HealthCheck(h) ==
  /\ call[h].pc = "idle"
  /\ call' = [call EXCEPT ![h] =
       LivenessResponse([IdleCall EXCEPT !.method = "GET", !.before = Store])]
  /\ UNCHANGED <<expectedTopicArn, resumes, results, lastApplied, completedJobs, signing, lastWrite>>

\* the upload route (app/api/resume/route.ts lines 53-62): a job is created
JobKeys == {KeyUser, KeyGuest}
JobOwners == {NoUserId, UserU1}

CreateResumeUpTo(limit) ==
  /\ Cardinality(resumes) < limit
  /\ \E s3Key \in JobKeys, userId \in JobOwners :
       resumes' = resumes \cup {[id |-> Cardinality(resumes) + 1, s3Key |-> s3Key,
                                 userId |-> userId, status |-> "PENDING"]}
  /\ UNCHANGED <<expectedTopicArn, results, call, lastApplied, completedJobs, signing, lastWrite>>

CreateResume == CreateResumeUpTo(MaxJobs)

\* requests handled one at a time
Next ==
  \/ AllIdle /\ Deliver(1)
  \/ AllIdle /\ CreateResume
  \/ AllIdle /\ HealthCheck(1)
  \/ CertFetched(1)
  \/ ConfFetched(1)
  \/ FindFirst(1)
  \/ UpdateStatus(1)
  \/ CommitTransaction(1)
  \/ Return(1)

Spec == Init /\ [][Next]_vars

\* ----------------------------------------------- concurrent invocations
\* The notifications that reach a handler's store accesses: verified, with a
\* storage key that names an owner and a known event type.
StoreMessages ==
  {Json(p) : p \in {[event_type |-> e, file_key |-> k] :
                      e \in KnownEvents, k \in {KeyUser, KeyGuest}}
                   \cup {[event_type |-> "processing_completed", file_key |-> k, results |-> r] :
                           k \in {KeyUser, KeyGuest}, r \in ResultsSet}}

StoreBodies ==
  {Parsed(Unsigned("Notification", TrustedTopic, m)
          @@ [SigningCertURL |-> UrlAws,
              Signature |-> SignatureBy(AwsKey, StringToSign(Unsigned("Notification", TrustedTopic, m)))]) :
     m \in StoreMessages}

\* Handler h has taken a notification through the topic check and the
\* signature check, which touch nothing shared, and is at its dispatch
\* (part_011 lines 66-104).
DeliverVerified(h) ==
  /\ call[h].pc = "idle"
  /\ \E body \in StoreBodies :
       call' = [call EXCEPT ![h] =
         AfterValidate([IdleCall EXCEPT !.body = body, !.certFetches = 1,
                                        !.certOutcome = "cert"],
                       CatchValidate(VerifyFetched(body.value, "cert")))]
  /\ UNCHANGED <<expectedTopicArn, resumes, results, lastApplied, completedJobs, signing, lastWrite>>

\* the trusted topic is configured; no job and no invocation yet
InitConc == Init /\ expectedTopicArn = TrustedTopic

\* any number of invocations in flight, each at its own await
NextConc ==
  \/ CreateResume
  \/ \E h \in Handlers :
       \/ DeliverVerified(h)
       \/ FindFirst(h)
       \/ UpdateStatus(h)
       \/ CommitTransaction(h)
       \/ Return(h)

SpecConc == InitConc /\ [][NextConc]_vars

\* ------------------------------------------- several jobs, one at a time
\* Handler h has taken a notification through the topic check and the
\* signature check and is at its dispatch; the store is as the call found it.
DeliverStore(h) ==
  /\ call[h].pc = "idle"
  /\ \E body \in StoreBodies :
       call' = [call EXCEPT ![h] =
         AfterValidate([IdleCall EXCEPT !.body = body, !.certFetches = 1,
                                        !.certOutcome = "cert", !.before = Store],
                       CatchValidate(VerifyFetched(body.value, "cert")))]
  /\ UNCHANGED <<expectedTopicArn, resumes, results, lastApplied, completedJobs, signing, lastWrite>>

NextFrame ==
  \/ AllIdle /\ CreateResumeUpTo(MaxJobsFrame)
  \/ AllIdle /\ DeliverStore(1)
  \/ FindFirst(1)
  \/ UpdateStatus(1)
  \/ CommitTransaction(1)
  \/ Return(1)

SpecFrame == InitConc /\ [][NextFrame]_vars

\* ----------------------------------- duplicates of one completion
\* The job the duplicates arrive for, as earlier events can have left it: not
\* completed yet and without Result, or completed once and with the Result of
\* that completion, whatever was applied to it since.
ExistingJobs ==
  {[id |-> 1, s3Key |-> k, userId |-> u, status |-> st] :
     k \in JobKeys, u \in JobOwners, st \in {"PENDING", "PROCESSING", "COMPLETED", "FAILED"}}

EventOfStatus(status) ==
  CASE status = "PROCESSING" -> "processing_started"
    [] status = "COMPLETED" -> "processing_completed"
    [] status = "FAILED" -> "processing_error"

InitDup ==
  /\ expectedTopicArn = TrustedTopic
  /\ call = [h \in Handlers |-> IdleCall]
  /\ signing = NoSigning
  /\ \E job \in ExistingJobs :
       /\ resumes = {job}
       /\ \/ /\ job.status # "COMPLETED"
             /\ results = {}
             /\ completedJobs = {}
             /\ lastApplied = [j \in JobIds |->
                  IF j = 1 /\ job.status # "PENDING"
                  THEN [event |-> EventOfStatus(job.status)] ELSE NothingApplied]
             /\ lastWrite = [j \in JobIds |->
                  IF j = 1 /\ job.status # "PENDING"
                  THEN [event |-> EventOfStatus(job.status), completion |-> NoCompletion]
                  ELSE NothingWritten]
          \/ /\ job.status # "PENDING"
             /\ \E prior \in ResultsSet :
                  /\ results = {PrismaCreateResult(1, ResultData(prior))}
                  /\ lastApplied = [j \in JobIds |->
                       IF j # 1 THEN NothingApplied
                       ELSE IF job.status = "COMPLETED"
                       THEN [event |-> "processing_completed", results |-> prior]
                       ELSE [event |-> EventOfStatus(job.status)]]
                  /\ lastWrite = [j \in JobIds |->
                       IF j = 1
                       THEN [event |-> EventOfStatus(job.status), completion |-> prior]
                       ELSE NothingWritten]
             /\ completedJobs = {1}

CompletionBodies ==
  {b \in StoreBodies : /\ parseSNSPayload(b.value).event_type = "processing_completed"
                       /\ Has(parseSNSPayload(b.value), "results")}

\* the delivery system hands another copy of the message to a free handler,
\* which takes it to its dispatch; before is the store the first copy found
DeliverDuplicate(h) ==
  /\ call[h].pc = "idle"
  /\ \E body \in CompletionBodies :
       /\ \A g \in Handlers : call[g].pc # "idle" => call[g].body = body
       /\ LET found == IF \E g \in Handlers : call[g].pc # "idle"
                       THEN (CHOOSE g \in Handlers : call[g].pc # "idle")
                       ELSE h
              first == IF found = h THEN Store ELSE call[found].before
          IN call' = [call EXCEPT ![h] =
               AfterValidate([IdleCall EXCEPT !.body = body, !.certFetches = 1,
                                              !.certOutcome = "cert", !.before = first],
                             CatchValidate(VerifyFetched(body.value, "cert")))]
  /\ UNCHANGED <<expectedTopicArn, resumes, results, lastApplied, completedJobs, signing, lastWrite>>

NextDup ==
  \E h \in Handlers :
    \/ DeliverDuplicate(h)
    \/ FindFirst(h)
    \/ CommitTransaction(h)

SpecDup == InitDup /\ [][NextDup]_vars

\* ------------------------------------------------------ hosts that hang
\* fetch(certUrl) and fetch(subscribeUrl) are called with the URL alone
\* (sns-validator.ts lines 83 and 148): no signal, no timeout. The promise
\* settles only when the host answers or the connection fails, so a host that
\* accepts the connection and never answers leaves the invocation at its
\* await, and nothing in the code takes it away from there.
HostSilent(h) ==
  LET c == call[h]
  IN /\ c.pc \in {"cert", "conf"}
     /\ call' = [call EXCEPT ![h] = [c EXCEPT !.pc = "hung"]]
     /\ UNCHANGED <<expectedTopicArn, resumes, results, lastApplied, completedJobs, signing, lastWrite>>

NextLive ==
  \/ Next
  \/ HostSilent(1)

\* every step of the handler that can be taken is taken in the end: a fetch
\* whose host answers returns, the store answers or fails, the response leaves
Fairness ==
  /\ WF_vars(CertFetched(1))
  /\ WF_vars(ConfFetched(1))
  /\ WF_vars(FindFirst(1))
  /\ WF_vars(UpdateStatus(1))
  /\ WF_vars(CommitTransaction(1))
  /\ WF_vars(Return(1))

SpecLive == Init /\ [][NextLive]_vars /\ Fairness

\* ------------------------------------------- the validator by itself
\* validateSNSSignature(message) (sns-validator.ts lines 72-140), given what
\* its certificate fetch comes to: "true" or "false"
validateSNSSignature(message, outcome) ==
  LET pre == BeforeFetch(message)
  IN CatchValidate(IF pre = "fetch" THEN VerifyFetched(message, outcome) ELSE pre)

\* The text the signing service signs: every signed field the envelope
\* carries, in this order, as its name, a newline, its value and a newline.
\* A confirmation always carries SubscribeURL and Token in its signed text.
SignerNames(e) ==
  IF e.Type = "Notification"
  THEN <<"Message", "MessageId">> \o (IF Has(e, "Subject") THEN <<"Subject">> ELSE <<>>)
       \o <<"Timestamp", "TopicArn", "Type">>
  ELSE <<"Message", "MessageId", "SubscribeURL", "Timestamp", "Token", "TopicArn", "Type">>

SignedValue(e, name) ==
  IF name = "Message" THEN e.Message
  ELSE IF name = "SubscribeURL" THEN Url(IF Has(e, name) THEN e.SubscribeURL ELSE <<>>)
  ELSE IF name = "Token" THEN Str(IF Has(e, name) THEN e.Token ELSE "")
  ELSE Str(e[name])

RECURSIVE TextOf(_, _)
TextOf(e, names) ==
  IF names = <<>> THEN <<>>
  ELSE <<FieldName(Head(names)), NL, SignedValue(e, Head(names)), NL>> \o TextOf(e, Tail(names))

\* the envelopes the signing service sends: a Subject, when there is one, is
\* not empty
SignerEnvelopes ==
  LET notifications ==
        UNION {{n, n @@ [Subject |-> "s-1"]} :
                 n \in {Unsigned("Notification", TrustedTopic, m) : m \in {DefaultMessage, NotJson}}}
      confirmations ==
        UNION {{c, c @@ [SubscribeURL |-> SubscribeUrl], c @@ [Token |-> "tok-1"],
                c @@ [SubscribeURL |-> SubscribeUrl, Token |-> "tok-1"]} :
                 c \in {Unsigned(t, TrustedTopic, DefaultMessage) :
                          t \in {"SubscriptionConfirmation", "UnsubscribeConfirmation"}}}
  IN {e @@ [SigningCertURL |-> UrlAws, Signature |-> SignatureBy(AwsKey, TextOf(e, SignerNames(e)))] :
        e \in notifications \cup confirmations}

WithField(e, f, v) == [k \in DOMAIN e \cup {f} |-> IF k = f THEN v ELSE e[k]]
Without(e, f) == [k \in DOMAIN e \ {f} |-> e[k]]

\* the envelope with one field given another value, added or taken away
Changed(e, f, values) ==
  {WithField(e, f, v) : v \in {w \in values : ~Has(e, f) \/ e[f] # w}}

TamperedWith(e, f) ==
  IF f = "Message"
  THEN Changed(e, f, {DefaultMessage, NotJson,
                      Json([event_type |-> "processing_error", file_key |-> KeyUser])})
  ELSE IF f = "MessageId" THEN Changed(e, f, {"m-1", "m-2"})
  ELSE IF f = "Subject"
  THEN Changed(e, f, {"", "s-1", "s-2"}) \cup (IF Has(e, f) THEN {Without(e, f)} ELSE {})
  ELSE IF f = "Timestamp" THEN Changed(e, f, {"t-1", "t-2"})
  ELSE IF f = "TopicArn" THEN Changed(e, f, {TrustedTopic, OtherTopic})
  ELSE IF f = "Type" THEN Changed(e, f, EnvelopeTypes)
  ELSE Changed(e, f, {SignatureBy(EvilKey, e.Signature.text), SignatureBy(AwsKey, <<>>)})

TamperFields == {"Message", "MessageId", "Subject", "Timestamp", "TopicArn", "Type", "Signature"}

InitSign ==
  /\ expectedTopicArn = TrustedTopic
  /\ resumes = {}
  /\ results = {}
  /\ call = [h \in Handlers |-> IdleCall]
  /\ lastApplied = [j \in JobIds |-> NothingApplied]
  /\ completedJobs = {}
  /\ lastWrite = [j \in JobIds |-> NothingWritten]
  /\ signing \in {[phase |-> "given", original |-> e, envelope |-> e, changed |-> "none",
                   outcome |-> "none", verdict |-> "none"] : e \in SignerEnvelopes}

\* one field of the envelope is changed on its way, the rest kept
Tamper ==
  /\ signing.phase = "given"
  /\ \E f \in TamperFields : \E e \in TamperedWith(signing.envelope, f) :
       signing' = [signing EXCEPT !.phase = "tampered", !.envelope = e, !.changed = f]
  /\ UNCHANGED <<expectedTopicArn, resumes, results, call, lastApplied, completedJobs, lastWrite>>

\* validateSNSSignature is applied to the envelope
Validate ==
  /\ signing.phase \in {"given", "tampered"}
  /\ \E outcome \in FetchOutcomes :
       signing' = [signing EXCEPT !.phase = "validated", !.outcome = outcome,
                                  !.verdict = validateSNSSignature(signing.envelope, outcome)]
  /\ UNCHANGED <<expectedTopicArn, resumes, results, call, lastApplied, completedJobs, lastWrite>>

NextSign ==
  \/ Tamper
  \/ Validate

SpecSign == InitSign /\ [][NextSign]_vars

\* ---------------------------------------------------------------- claims
ResultsOf(table, resumeId) == {r \in table : r.resumeId = resumeId}
ResumeById(table, id) == CHOOSE r \in table : r.id = id

OrNull(v) == IF v = Undefined THEN Null ELSE v

\* the Result a completion payload describes by itself: an absent numeric
\* field is null, an absent list is empty
ResultFromPayload(resumeId, res) ==
  LET sect == IF Has(res, "section_scores") THEN res.section_scores ELSE [none |-> TRUE]
  IN [resumeId |-> resumeId,
      score |-> OrNull(Get(res, "overall_score")),
      atsScore |-> OrNull(Get(res, "ats_compatibility")),
      contentScore |-> OrNull(Get(res, "content_quality")),
      keywordDensity |-> OrNull(Get(res, "keyword_density")),
      contactScore |-> OrNull(Get(sect, "contact_information")),
      summaryScore |-> OrNull(Get(sect, "professional_summary")),
      experienceScore |-> OrNull(Get(sect, "work_experience")),
      educationScore |-> OrNull(Get(sect, "education")),
      skillsScore |-> OrNull(Get(sect, "skills")),
      formattingScore |-> OrNull(Get(sect, "formatting")),
      extractedSkills |-> IF Has(res, "keywords_found") THEN res.keywords_found ELSE <<>>,
      recommendations |-> IF Has(res, "recommendations") THEN res.recommendations ELSE <<>>,
      strengths |-> IF Has(res, "strengths") THEN res.strengths ELSE <<>>,
      improvementAreas |-> IF Has(res, "improvement_areas") THEN res.improvement_areas ELSE <<>>]

\* the invocation of handler h applied a processing_completed to a job
AppliedCompleted(c) == Applied(c) /\ Payload(c).event_type = "processing_completed"

\* the invocation was given a verified notification whose Message is JSON
VerifiedNotification(c) ==
  /\ c.pc # "idle" /\ c.body.ok /\ c.verified = "true"
  /\ Envelope(c).Type = "Notification" /\ Envelope(c).Message.json

StoreUntouched(c) == Store = c.before /\ c.dbWrites = 0

\* C1: a second processing_completed for a job that has a Result leaves the
\* Result holding exactly what the second payload describes by itself (absent
\* number -> null, absent list -> empty); nothing of the first survives.
C1_SecondCompletionReplacesAll ==
  \A h \in Handlers :
    LET c == call[h]
    IN (AppliedCompleted(c) /\ ResultsOf(c.before.results, c.resumeId) # {})
       => ResultsOf(results, c.resumeId) = {ResultFromPayload(c.resumeId, Payload(c).results)}

\* C2: a processing_completed handled again with the payload that was last
\* applied to the job leaves the job COMPLETED with exactly one Result, and
\* the store as it was after the first handling.
C2_CompletedTwiceIsOnce ==
  \A h \in Handlers :
    LET c == call[h]
    IN (AppliedCompleted(c) /\ lastApplied[c.resumeId] = AppliedBy(c))
       => /\ Store = c.before
          /\ ResumeById(resumes, c.resumeId).status = "COMPLETED"
          /\ Cardinality(ResultsOf(results, c.resumeId)) = 1

C2_Witness ==
  \E h \in Handlers :
    /\ AppliedCompleted(call[h])
    /\ lastApplied[call[h].resumeId] = AppliedBy(call[h])
    /\ Cardinality(ResultsOf(results, call[h].resumeId)) = 1

\* C3: in every store state a reader can see while handlers run concurrently,
\* a COMPLETED job has a Result, and the Result's fields all come from one
\* completion payload.
C3_CompletedHasOnePayloadResult ==
  \A r \in resumes :
    r.status = "COMPLETED"
    => \E res \in ResultsSet : ResultsOf(results, r.id) = {ResultFromPayload(r.id, res)}

\* the status an event stands for
ImpliedStatus(event) ==
  CASE event = "processing_started" -> "PROCESSING"
    [] event = "processing_completed" -> "COMPLETED"
    [] event = "processing_error" -> "FAILED"

\* C4: with notifications handled one after another, the status of a job is
\* the one its last handled (applied and acknowledged) event stands for,
\* whatever it was before: when the handler answers, and between invocations.
C4_LastEventDictatesStatus ==
  /\ \A h \in Handlers :
       Applied(call[h])
       => ResumeById(resumes, call[h].resumeId).status = ImpliedStatus(Payload(call[h]).event_type)
  /\ AllIdle
     => \A r \in resumes :
          lastApplied[r.id] # NothingApplied => r.status = ImpliedStatus(lastApplied[r.id].event)

\* a late processing_started applied to a job that was COMPLETED
C4_Witness ==
  \E h \in Handlers :
    /\ Applied(call[h])
    /\ Payload(call[h]).event_type = "processing_started"
    /\ lastApplied[call[h].resumeId].event = "processing_completed"
    /\ ResumeById(call[h].before.resumes, call[h].resumeId).status = "COMPLETED"
    /\ ResumeById(resumes, call[h].resumeId).status = "PROCESSING"

\* the envelope of the invocation is from another topic than the configured one
WrongTopic(c) ==
  /\ c.pc # "idle" /\ c.body.ok
  /\ expectedTopicArn # "" /\ Envelope(c).TopicArn # expectedTopicArn

\* the invocation called neither the verifier nor the store
NothingInvoked(c) ==
  /\ c.verified = "none" /\ c.certFetches = 0 /\ c.confFetches = 0
  /\ c.dbReads = 0 /\ c.dbWrites = 0 /\ Store = c.before

C6_BadSignatureAnswered403 ==
  \A h \in Handlers :
    LET c == call[h]
    IN c.verified = "false"
       => /\ c.pc = "done" /\ c.resp = 403
          /\ c.dbReads = 0 /\ c.dbWrites = 0 /\ c.confFetches = 0 /\ Store = c.before

\* a cryptographic mismatch: the certificate came, the signature is not over
\* the envelope
C6_Witness ==
  \E h \in Handlers :
    /\ call[h].verified = "false" /\ call[h].certOutcome = "cert"
    /\ Envelope(call[h]).Type = "Notification"
    /\ call[h].resp = 403

\* the validator was called on the envelope of the invocation
ValidatorCalled(c) == c.pc # "idle" /\ c.body.ok /\ (c.pc = "cert" \/ c.verified # "none")

\* C7: an envelope whose SigningCertURL is not a secure URL on a host of the
\* signing service is refused without a fetch, also when the trusted domain
\* appears only in the URL's path.
C7_UntrustedUrlNeverFetched ==
  \A h \in Handlers :
    LET c == call[h]
    IN (ValidatorCalled(c) /\ Has(Envelope(c), "SigningCertURL")
          /\ ~TrustedSignerUrl(Envelope(c).SigningCertURL))
       => c.certFetches = 0 /\ c.verified = "false"

\* a step of the validator failed: no URL to test, no certificate fetched, no
\* certificate in what was fetched, no signature to check
ValidatorStepFailed(c) ==
  \/ ~Has(Envelope(c), "SigningCertURL")
  \/ c.certOutcome \in {"error", "notok", "garbage"}
  \/ (c.certOutcome = "cert" /\ ~Has(Envelope(c), "Signature"))

\* C8: validateSNSSignature never throws: its verdict is a boolean, and it is
\* false whenever the fetch, the parse or the check failed.
C8_ValidatorNeverThrows ==
  \A h \in Handlers :
    LET c == call[h]
    IN /\ c.verified \in {"none", "true", "false"}
       /\ c.threw # "validate"
       /\ (ValidatorCalled(c) /\ c.pc # "cert" /\ ValidatorStepFailed(c)) => c.verified = "false"

C8_Witness ==
  \E h \in Handlers :
    /\ ValidatorCalled(call[h]) /\ call[h].certOutcome = "error"
    /\ call[h].verified = "false"

UnknownEvent(c) == VerifiedNotification(c) /\ Get(Payload(c), "event_type") \notin KnownEvents

\* C9 as stated: a verified notification with an unknown event_type is
\* answered 200 and changes no Job and no Result.
C9_UnknownEventAnswered200 ==
  \A h \in Handlers :
    UnknownEvent(call[h])
    => call[h].pc = "done" /\ call[h].resp = 200 /\ StoreUntouched(call[h])

\* C9 amended: such a notification is answered 200 when its storage key names
\* an owner and 400 when it does not, and changes no Job and no Result.
C9_UnknownEventNoMutation ==
  \A h \in Handlers :
    LET c == call[h]
    IN UnknownEvent(c)
       => /\ c.pc = "done" /\ StoreUntouched(c) /\ c.dbReads = 0
          /\ c.resp = (IF extractUserIdFromS3Key(Payload(c)) # NoUserId THEN 200 ELSE 400)

C9_Witness ==
  \E h \in Handlers :
    /\ UnknownEvent(call[h]) /\ call[h].resp = 200
    /\ resumes # {}

\* no job has the notification's storage key and its owner: no owner for the
\* guest token, the token itself otherwise
NoJobFor(table, s3Key, token) ==
  ~\E r \in table :
     /\ r.s3Key = s3Key
     /\ IF token = Guest THEN r.userId = NoUserId ELSE r.userId = token

\* a verified notification with a known event type and an owner token that
\* matched no job, and whose lookup was answered by the store
UnknownJob(c) ==
  /\ VerifiedNotification(c) /\ c.pc = "done"
  /\ c.userId # NoUserId /\ c.threw = "none"
  /\ NoJobFor(c.before.resumes, Payload(c).file_key, c.userId)

\* C10: a verified notification of a known event type whose key and owner
\* match no job is answered 200 and leaves every Job and Result as it was.
C10_UnknownJobAcknowledged ==
  \A h \in Handlers :
    UnknownJob(call[h]) => call[h].resp = 200 /\ StoreUntouched(call[h])

\* a processing_completed whose key belongs to a job of another owner
C10_Witness ==
  \E h \in Handlers :
    /\ UnknownJob(call[h])
    /\ Payload(call[h]).event_type = "processing_completed"
    /\ Has(Payload(call[h]), "results")
    /\ \E r \in resumes : r.s3Key = Payload(call[h]).file_key
    /\ call[h].resp = 200 /\ results = {}

\* the storage key of the payload is unusable: there is none, its first path
\* segment is neither "uploads" nor "resumes", or it has no owner segment
KeyUnusable(payload) ==
  \/ ~Has(payload, "file_key")
  \/ LET segments == Split(payload.file_key, "/")
     IN \/ segments[1] \notin {<<"uploads">>, <<"resumes">>}
        \/ Len(segments) < 2
        \/ segments[2] = <<>>

\* the invocation was given a verified notification whose Message is no JSON
\* or whose payload has an unusable storage key
MalformedNotification(c) ==
  /\ c.pc # "idle" /\ c.body.ok /\ c.verified = "true"
  /\ Envelope(c).Type = "Notification"
  /\ (Envelope(c).Message.json => KeyUnusable(Payload(c)))

\* C11: a verified notification whose Message is not JSON, or whose payload
\* has no storage key, a key under an unrecognized prefix or a key without an
\* owner segment, is answered 400 with no store lookup and no mutation,
\* whatever its event_type.
C11_MalformedNotificationAnswered400 ==
  \A h \in Handlers :
    LET c == call[h]
    IN MalformedNotification(c)
       => /\ c.pc = "done" /\ c.resp = 400
          /\ c.dbReads = 0 /\ c.dbCalls = 0 /\ StoreUntouched(c)

\* a processing_completed under an unrecognized prefix, while a job exists
C11_Witness ==
  \E h \in Handlers :
    /\ MalformedNotification(call[h]) /\ call[h].resp = 400
    /\ Envelope(call[h]).Message.json
    /\ Payload(call[h]).event_type = "processing_completed"
    /\ Has(Payload(call[h]), "file_key") /\ Payload(call[h]).file_key = KeyBadPrefix
    /\ resumes # {}

\* the body of the invocation is no JSON: req.json() rejects
UnparseableBody(c) == c.pc # "idle" /\ c.method = "POST" /\ ~c.body.ok

\* C12: a POST whose raw body cannot be parsed into a JSON envelope is
\* answered 400, with no verification, no fetch and no store access.
C12_UnparseableBodyAnswered400 ==
  \A h \in Handlers :
    UnparseableBody(call[h])
    => call[h].pc = "done" /\ call[h].resp = 400 /\ NothingInvoked(call[h])

\* a store call of the invocation failed: the lookup, the status update or
\* the completion transaction
StoreFailed(c) == c.pc # "idle" /\ c.threw = "db"

\* C13: when the lookup, the status update or the completion transaction
\* fails, the POST is answered 500, the failed call was the handler's last
\* store call (the lookup alone, or the lookup and one write: nothing is tried
\* again), and the store is as it was before the call.
C13_StoreFailureAnswered500 ==
  \A h \in Handlers :
    LET c == call[h]
    IN StoreFailed(c)
       => /\ c.pc = "done" /\ c.resp = 500
          /\ c.dbCalls = (IF c.resumeId = 0 THEN 1 ELSE 2)
          /\ c.dbWrites = 0
          /\ Store = c.before

\* a completion transaction that failed for a job that was not COMPLETED and
\* had no Result
C13_Witness ==
  \E h \in Handlers :
    /\ StoreFailed(call[h]) /\ call[h].resumeId # 0
    /\ Payload(call[h]).event_type = "processing_completed"
    /\ call[h].resp = 500
    /\ ResumeById(resumes, call[h].resumeId).status = "PROCESSING"
    /\ ResultsOf(results, call[h].resumeId) = {}

\* the owner token of a storage key: its second path segment
OwnerToken(s3Key) == Split(s3Key, "/")[2]

\* the job has exactly this storage key, and the owner the key's token names:
\* no owner for "guest", the token itself otherwise
JobFits(r, s3Key) ==
  /\ r.s3Key = s3Key
  /\ IF OwnerToken(s3Key) = Guest THEN r.userId = NoUserId ELSE r.userId = OwnerToken(s3Key)

\* the jobs and Results the invocation has changed, created or removed so far
JobsTouched(c) ==
  {r.id : r \in (c.before.resumes \ resumes) \cup (resumes \ c.before.resumes)}
  \cup {r.resumeId : r \in (c.before.results \ results) \cup (results \ c.before.results)}

\* C14: the job a notification is applied to has the notification's storage
\* key and the owner its token names (none for "guest"), and the invocation
\* changes no job and no Result of any other key or owner.
C14_AppliedToKeyAndOwner ==
  \A h \in Handlers :
    LET c == call[h]
    IN c.pc # "idle"
       => /\ c.resumeId # 0 => JobFits(ResumeById(resumes, c.resumeId), Payload(c).file_key)
          /\ \A id \in JobsTouched(c) :
               /\ VerifiedNotification(c) /\ id = c.resumeId
               /\ JobFits(ResumeById(resumes, id), Payload(c).file_key)

\* a guest notification applied to a job without owner
C14_Witness ==
  \E h \in Handlers :
    /\ Applied(call[h]) /\ JobsTouched(call[h]) = {call[h].resumeId}
    /\ Payload(call[h]).file_key = KeyGuest
    /\ ResumeById(resumes, call[h].resumeId).userId = NoUserId

\* the invocation applied a processing_error to a job
AppliedError(c) == Applied(c) /\ Payload(c).event_type = "processing_error"

\* C15: a processing_error handled for an existing job leaves the job FAILED,
\* whatever its status was, and leaves the Result table exactly as it was: no
\* Result created, altered or deleted.
C15_ErrorSetsFailedKeepsResults ==
  \A h \in Handlers :
    LET c == call[h]
    IN AppliedError(c)
       => /\ ResumeById(resumes, c.resumeId).status = "FAILED"
          /\ results = c.before.results

\* a processing_error applied to a COMPLETED job that has a Result
C15_Witness ==
  \E h \in Handlers :
    /\ AppliedError(call[h])
    /\ ResumeById(call[h].before.resumes, call[h].resumeId).status = "COMPLETED"
    /\ ResumeById(resumes, call[h].resumeId).status = "FAILED"
    /\ ResultsOf(results, call[h].resumeId) # {}

\* C16: in every store state, a job has a Result exactly when a completion
\* transaction has committed for it since it was created, whatever was applied
\* to it afterwards; no job has two Results, and no Result is without its job.
C16_ResultIffCompletedOnce ==
  /\ \A r \in resumes :
       /\ (ResultsOf(results, r.id) # {}) = (r.id \in completedJobs)
       /\ Cardinality(ResultsOf(results, r.id)) <= 1
  /\ \A res \in results : \E r \in resumes : r.id = res.resumeId

\* a job that was completed and then failed still has its Result, while
\* completion for it is in flight
C16_Witness ==
  \E r \in resumes :
    /\ r.id \in completedJobs /\ r.status = "FAILED"
    /\ Cardinality(ResultsOf(results, r.id)) = 1
    /\ \E h \in Handlers : call[h].pc = "tx" /\ call[h].resumeId = r.id

\* the invocation was given a verified envelope of the kind POST handles as a
\* confirmation, carrying a SubscribeURL
ConfirmationRequest(c) ==
  /\ c.pc # "idle" /\ c.body.ok /\ c.verified = "true"
  /\ Envelope(c).Type = "SubscriptionConfirmation"
  /\ Has(Envelope(c), "SubscribeURL") /\ Envelope(c).SubscribeURL # <<>>

\* C17: for a verified confirmation envelope with a SubscribeURL the endpoint
\* makes exactly one GET, to that URL, answers 200 when the GET succeeded and
\* 500 when it failed or came back without success, and touches no Job and no
\* Result.
C17_ConfirmationFetchedOnce ==
  \A h \in Handlers :
    LET c == call[h]
    IN ConfirmationRequest(c)
       => /\ c.confFetches = 1 /\ c.confUrl = Envelope(c).SubscribeURL
          /\ c.pc \in {"conf", "done"}
          /\ c.pc = "done"
             => /\ c.confOutcome \in {"ok", "notok", "error"}
                /\ c.resp = (IF c.confOutcome = "ok" THEN 200 ELSE 500)
          /\ c.dbCalls = 0 /\ StoreUntouched(c)

\* a confirmation whose GET came back without success, while a job exists
C17_Witness ==
  \E h \in Handlers :
    /\ ConfirmationRequest(call[h]) /\ call[h].pc = "done"
    /\ call[h].confOutcome = "notok" /\ call[h].resp = 500
    /\ resumes # {}

\* the invocation was given a verified UnsubscribeConfirmation envelope
\* carrying its confirmation URL
UnsubscribeRequest(c) ==
  /\ c.pc # "idle" /\ c.body.ok /\ c.verified = "true"
  /\ Envelope(c).Type = "UnsubscribeConfirmation"
  /\ Has(Envelope(c), "SubscribeURL") /\ Envelope(c).SubscribeURL # <<>>

\* C18: a verified UnsubscribeConfirmation is handled like a
\* SubscriptionConfirmation: its confirmation URL is fetched once, the outcome
\* is answered 200 or 500, and no payload is parsed and no store call made.
C18_UnsubscribeHandledAsConfirmation ==
  \A h \in Handlers :
    LET c == call[h]
    IN UnsubscribeRequest(c)
       => /\ c.confFetches = 1 /\ c.confUrl = Envelope(c).SubscribeURL
          /\ c.pc \in {"conf", "done"}
          /\ c.pc = "done" => c.resp = (IF c.confOutcome = "ok" THEN 200 ELSE 500)
          /\ c.dbCalls = 0 /\ StoreUntouched(c)

ResponseStatuses == {200, 400, 403, 500}

\* C19: an invocation that has ended has answered with one of 200, 400, 403
\* and 500, one that has not ended has not answered yet, and whatever was
\* thrown on the way (by req.json(), a property read or the store) was caught
\* and answered 500.
C19_OneStructuredResponse ==
  \A h \in Handlers :
    LET c == call[h]
    IN /\ c.pc = "done" => c.resp \in ResponseStatuses
       /\ c.pc # "done" => c.resp = 0
       /\ c.threw # "none" => c.pc = "done" /\ c.resp = 500
       /\ c.certOutcome \in {"error", "notok", "garbage"} => c.pc = "done" /\ c.resp = 403
       /\ c.confOutcome \in {"error", "notok"} => c.pc = "done" /\ c.resp = 500

\* a TypeError inside a handler (a completion payload without results, read
\* after the job was found) answered 500
C19_Witness ==
  \E h \in Handlers :
    /\ call[h].pc = "done" /\ call[h].threw = "type" /\ call[h].resp = 500
    /\ call[h].resumeId # 0

\* C20: every invocation returns a response in the end, also when the
\* certificate host or the confirmation host never answers.
C20_EveryInvocationReturns ==
  \A h \in Handlers : (call[h].pc # "idle") ~> (call[h].pc = "done")

\* the one change made to the envelope is an empty Subject put on an envelope
\* that had no Subject
EmptySubjectAdded ==
  /\ signing.changed = "Subject" /\ ~Has(signing.original, "Subject")
  /\ Has(signing.envelope, "Subject") /\ signing.envelope.Subject = ""

\* validateSNSSignature was applied to a notification of the signing service,
\* as sent or with one field changed, and the certificate was fetched
NotificationValidated ==
  /\ signing.phase = "validated" /\ signing.outcome = "cert"
  /\ signing.original.Type = "Notification"

\* C21 as stated: a notification with the signer's valid signature verifies,
\* and with its Signature or any one of Message, MessageId, Subject, Timestamp,
\* TopicArn, Type changed it does not.
C21_AnyChangeRejected ==
  NotificationValidated
  => signing.verdict = (IF signing.changed = "none" THEN "true" ELSE "false")

\* C21 amended: the same, except that an empty Subject put on a notification
\* that has none is not part of the signed text and still verifies.
C21_SignedChangeRejected ==
  NotificationValidated
  => signing.verdict = (IF signing.changed = "none" \/ EmptySubjectAdded THEN "true" ELSE "false")

\* a notification whose Message was changed on the way is refused
C21_Witness ==
  /\ NotificationValidated /\ signing.changed = "Message"
  /\ signing.verdict = "false"

\* C22: a GET is answered 200 with the same liveness payload whatever the
\* configuration and the store, without any verification, and it reads and
\* writes no store and fetches nothing.
C22_HealthCheckIsStatic ==
  \A h \in Handlers :
    LET c == call[h]
    IN (c.pc # "idle" /\ c.method = "GET")
       => /\ c.pc = "done" /\ c.resp = 200 /\ c.respBody = LivenessPayload
          /\ NothingInvoked(c) /\ c.dbCalls = 0

\* a GET answered while a COMPLETED job exists and a topic is configured
C22_Witness ==
  \E h \in Handlers :
    /\ call[h].method = "GET" /\ call[h].resp = 200
    /\ expectedTopicArn = TrustedTopic
    /\ \E r \in resumes : r.status = "COMPLETED"

\* the letters of the field names, in the order of their character codes
Alphabet ==
  <<"A", "I", "L", "M", "R", "S", "T", "U", "a", "b", "c", "d", "e", "g", "i", "j",
    "k", "m", "n", "o", "p", "r", "s", "t", "u", "y">>

Rank(letter) == CHOOSE i \in 1..Len(Alphabet) : Alphabet[i] = letter

Spelling(name) ==
  CASE name = "Message" -> <<"M", "e", "s", "s", "a", "g", "e">>
    [] name = "MessageId" -> <<"M", "e", "s", "s", "a", "g", "e", "I", "d">>
    [] name = "Subject" -> <<"S", "u", "b", "j", "e", "c", "t">>
    [] name = "SubscribeURL" -> <<"S", "u", "b", "s", "c", "r", "i", "b", "e", "U", "R", "L">>
    [] name = "Timestamp" -> <<"T", "i", "m", "e", "s", "t", "a", "m", "p">>
    [] name = "Token" -> <<"T", "o", "k", "e", "n">>
    [] name = "TopicArn" -> <<"T", "o", "p", "i", "c", "A", "r", "n">>
    [] name = "Type" -> <<"T", "y", "p", "e">>

\* a comes strictly before b in alphabetical order
RECURSIVE Before(_, _)
Before(a, b) ==
  IF b = <<>> THEN FALSE
  ELSE IF a = <<>> THEN TRUE
  ELSE IF Head(a) = Head(b) THEN Before(Tail(a), Tail(b))
  ELSE Rank(Head(a)) < Rank(Head(b))

\* the field names a text carries, in the order they appear
NamesIn(text) ==
  LET names == SelectSeq(text, LAMBDA ch : "name" \in DOMAIN ch)
  IN [i \in 1..Len(names) |-> names[i].name]

StrictlyAlphabetical(names) ==
  \A i \in 1..(Len(names) - 1) : Before(Spelling(names[i]), Spelling(names[i + 1]))

\* the fields of the verified string as the claim lists them; hasSubject
\* tells whether the envelope counts as having a Subject
ListedNames(e, hasSubject) ==
  IF e.Type = "Notification"
  THEN <<"Message", "MessageId">> \o (IF hasSubject THEN <<"Subject">> ELSE <<>>)
       \o <<"Timestamp", "TopicArn", "Type">>
  ELSE <<"Message", "MessageId", "SubscribeURL", "Timestamp", "Token", "TopicArn", "Type">>

\* the envelope validateSNSSignature is applied to is of one of the three
\* kinds the claim speaks of
KindHasSignedText ==
  /\ signing.phase # "none"
  /\ signing.envelope.Type \in {"Notification", "SubscriptionConfirmation", "UnsubscribeConfirmation"}

\* the verified string is the listed fields, each as name, newline, value,
\* joined by newlines with one trailing newline, in alphabetical order
VerifiedStringIs(hasSubject) ==
  LET e == signing.envelope
  IN /\ StringToSign(e) = TextOf(e, ListedNames(e, hasSubject))
     /\ StrictlyAlphabetical(NamesIn(StringToSign(e)))

\* C23 as stated: the Subject line is there whenever the envelope has a Subject.
C23_SubjectWhenPresent ==
  KindHasSignedText => VerifiedStringIs(Has(signing.envelope, "Subject"))

\* C23 amended: the Subject line is there whenever the envelope has a Subject
\* that is not empty; the rest as stated.
C23_SubjectWhenNotEmpty ==
  KindHasSignedText
  => VerifiedStringIs(Has(signing.envelope, "Subject") /\ signing.envelope.Subject # "")

\* validateSNSSignature applied to a notification with an empty Subject
C23_Witness ==
  /\ KindHasSignedText
  /\ signing.envelope.Type = "Notification"
  /\ Has(signing.envelope, "Subject") /\ signing.envelope.Subject = ""
  /\ signing.phase = "validated"

\* C24: handling one notification changes at most the status of the job the
\* lookup returned and, for a completion, the Result of that job; every other
\* job and Result, and the key and owner of the job itself, stay as they were.
C24_OnlyLocatedJobChanges ==
  \A h \in Handlers :
    LET c == call[h]
    IN c.pc # "idle"
       => /\ Cardinality(resumes) = Cardinality(c.before.resumes)
          /\ \A r \in c.before.resumes :
               \E now \in resumes :
                 /\ now.id = r.id /\ now.s3Key = r.s3Key /\ now.userId = r.userId
                 /\ r.id # c.resumeId => now = r
          /\ \A res \in results \cup c.before.results :
               res.resumeId # c.resumeId => res \in results \cap c.before.results
          /\ Payload(c).event_type # "processing_completed" => results = c.before.results

\* a second completion applied to one of two jobs that both have a Result and
\* share the storage key
C24_Witness ==
  \E h \in Handlers :
    /\ AppliedCompleted(call[h]) /\ Store # call[h].before
    /\ \E other \in resumes :
         /\ other.id # call[h].resumeId
         /\ other.s3Key = Payload(call[h]).file_key
         /\ ResultsOf(results, other.id) # {}
    /\ ResultsOf(call[h].before.results, call[h].resumeId) # {}

\* the invocation has fetched a confirmation URL, called the store, or is
\* about to get the answer of one of the two
PastVerification(c) ==
  \/ c.confFetches > 0 \/ c.dbCalls > 0 \/ c.dbReads > 0 \/ c.dbWrites > 0
  \/ c.pc \in {"conf", "find", "update", "tx"}

\* C25: within one POST, no confirmation fetch, store lookup or store write
\* happens unless the topic check has passed and validateSNSSignature has
\* returned true for that call; a write comes after the lookup that found its
\* job, a lookup after the payload was classified as a known event with an
\* owner; and a call that got no further than the topic check or the
\* verification has changed nothing.
C25_VerifyBeforeStore ==
  \A h \in Handlers :
    LET c == call[h]
    IN (c.pc # "idle" /\ c.method = "POST")
       => /\ (c.pc = "cert" \/ c.verified # "none")
             => ~TopicRefused(expectedTopicArn, Envelope(c))
          /\ PastVerification(c)
             => c.verified = "true" /\ ~TopicRefused(expectedTopicArn, Envelope(c))
          /\ (c.dbReads > 0 \/ c.pc = "find")
             => /\ Envelope(c).Type = "Notification"
                /\ Get(Payload(c), "event_type") \in KnownEvents
                /\ c.userId # NoUserId
          /\ (c.dbWrites > 0 \/ c.pc \in {"update", "tx"}) => c.dbReads = 1 /\ c.resumeId # 0
          /\ c.verified # "true" => Store = c.before

\* a completion at its transaction: verified after one certificate fetch,
\* looked up once, nothing written yet
C25_Witness ==
  \E h \in Handlers :
    /\ call[h].pc = "tx" /\ call[h].verified = "true"
    /\ call[h].certFetches = 1 /\ call[h].dbReads = 1 /\ call[h].dbWrites = 0

\* every handler has finished a copy of the same processing_completed, and
\* one of them at least found the job and answered 200
DuplicatesFinished ==
  /\ \A h \in Handlers : call[h].pc = "done"
  /\ \E h \in Handlers : Applied(call[h])

\* C26: when concurrent duplicates of one processing_completed for an
\* existing job have all finished, each was answered 200 or 500, the job is
\* COMPLETED and has exactly one Result, holding the payload's values; and at
\* no point does a job have two Results.
C26_DuplicatesLeaveOnePayloadResult ==
  /\ \A r \in resumes : Cardinality(ResultsOf(results, r.id)) <= 1
  /\ DuplicatesFinished
     => \A h \in Handlers :
          /\ call[h].resp \in {200, 500}
          /\ Applied(call[h])
             => /\ ResumeById(resumes, call[h].resumeId).status = "COMPLETED"
                /\ ResultsOf(results, call[h].resumeId)
                     = {ResultFromPayload(call[h].resumeId, Payload(call[h]).results)}

\* no handler is between its lookup and the end of its write
AllFinished == \A h \in Handlers : call[h].pc \in {"idle", "done"}

\* C27: when handlers for events of one job have run concurrently and all
\* have finished, the job's status is the one implied by the event whose
\* write committed last (PENDING when none has), and its Result, if a
\* completion committed, holds the values of the completion that committed
\* last.
C27_LastCommitWins ==
  AllFinished
  => \A r \in resumes :
       /\ r.status = (IF lastWrite[r.id].event = "none" THEN "PENDING"
                      ELSE ImpliedStatus(lastWrite[r.id].event))
       /\ lastWrite[r.id].completion # NoCompletion
          => ResultsOf(results, r.id) = {ResultFromPayload(r.id, lastWrite[r.id].completion)}

JobStatuses == {"PENDING", "PROCESSING", "COMPLETED", "FAILED"}

\* a job of the next state that the current state does not have
Created(r) == \A q \in resumes : q.id # r.id

\* C28: a job is created PENDING, a job whose status has left PENDING is
\* never PENDING again, and every job's status is always one of PENDING,
\* PROCESSING, COMPLETED, FAILED.
C28_PendingOnlyAtCreation ==
  /\ [](\A r \in resumes : r.status \in JobStatuses)
  /\ [][\A r \in resumes' :
          /\ Created(r) => r.status = "PENDING"
          /\ r.status = "PENDING"
             => \A q \in resumes : q.id = r.id => q.status = "PENDING"]_vars

\* a job that a completion and, after it, an error were written to
C28_Witness ==
  \E r \in resumes :
    /\ r.id \in completedJobs
    /\ r.status = "FAILED"
    /\ lastWrite[r.id].event = "processing_error"

\* a POST whose envelope has a Type the signature code knows no fields for
UnknownType(c) ==
  /\ c.pc # "idle"
  /\ c.method = "POST"
  /\ c.body.ok
  /\ Envelope(c).Type \notin {"Notification", "SubscriptionConfirmation", "UnsubscribeConfirmation"}

\* C29: an envelope whose Type is none of Notification,
\* SubscriptionConfirmation, UnsubscribeConfirmation never causes a store
\* call or a confirmation-URL fetch; it is verified against the empty signed
\* text, and is answered 400 when verification succeeded and 403 when not.
C29_UnknownTypeTouchesNothing ==
  \A h \in Handlers :
    LET c == call[h]
    IN UnknownType(c)
       => /\ c.confFetches = 0
          /\ c.dbCalls = 0
          /\ StoreUntouched(c)
          /\ c.pc \in {"cert", "done"}
          /\ c.verified = "true"
             => /\ Has(Envelope(c), "Signature")
                /\ Envelope(c).Signature.text = <<>>
          /\ c.pc = "done"
             => c.resp = (IF c.verified = "true" THEN 400 ELSE 403)

\* an envelope of unknown Type that passed verification and was answered
C29_Witness ==
  \E h \in Handlers :
    /\ UnknownType(call[h])
    /\ call[h].pc = "done"
    /\ call[h].verified = "true"
    /\ call[h].certFetches = 1
    /\ call[h].resp = 400

\* no trusted topic is configured and the POST carries an envelope of a topic
\* other than the one the deployment would configure
UntrustedTopicUnchecked(c) ==
  /\ expectedTopicArn = ""
  /\ c.pc # "idle" /\ c.method = "POST" /\ c.body.ok
  /\ Envelope(c).TopicArn # TrustedTopic

\* the same envelope published on the trusted topic: the TopicArn replaced,
\* and a signature over the envelope's signed text made over the new one
OnTrustedTopic(e) ==
  LET moved == [e EXCEPT !.TopicArn = TrustedTopic]
  IN IF Has(e, "Signature") /\ e.Signature.text = StringToSign(e)
     THEN [moved EXCEPT !.Signature = SignatureBy(e.Signature.key, StringToSign(moved))]
     ELSE moved

\* where POST takes the envelope of c moved to the trusted topic, with the
\* trusted topic configured and the certificate fetch answered as it was for c
AsFromTrustedTopic(c) ==
  LET t == [IdleCall EXCEPT !.body = Parsed(OnTrustedTopic(Envelope(c))), !.before = c.before]
      pre == BeforeFetch(Envelope(t))
  IN IF TopicRefused(TrustedTopic, Envelope(t)) THEN Respond(t, TopicRefusedStatus)
     ELSE IF pre # "fetch" THEN AfterValidate(t, CatchValidate(pre))
     ELSE IF c.certOutcome = "none" THEN [t EXCEPT !.pc = "cert", !.certFetches = 1]
     ELSE AfterValidate([t EXCEPT !.certFetches = 1, !.certOutcome = c.certOutcome],
                        CatchValidate(VerifyFetched(Envelope(t), c.certOutcome)))

\* c is on the branch t was dispatched to, with the inputs t was given
SameBranch(c, t) ==
  /\ c.verified = t.verified
  /\ c.certFetches = t.certFetches
  /\ c.confFetches = t.confFetches
  /\ c.confUrl = t.confUrl
  /\ c.userId = t.userId
  /\ Payload(c) = Payload(t)
  /\ t.pc = "cert" => c.pc = "cert"
  /\ t.pc = "done" => c.pc = "done" /\ c.resp = t.resp /\ c.threw = t.threw /\ c.dbCalls = 0
  /\ t.pc = "conf" => c.pc \in {"conf", "done"} /\ c.dbCalls = 0
  /\ t.pc = "find" => c.pc \notin {"cert", "conf"} /\ (c.pc = "done" => c.dbCalls > 0)

\* C30: when no trusted topic is configured, an envelope with any TopicArn is
\* never answered without signature verification having run, is never
\* refused unless verification failed, and is dispatched as the same envelope
\* from the trusted topic is.
C30_UnsetTopicSkipsCheck ==
  \A h \in Handlers :
    LET c == call[h]
    IN UntrustedTopicUnchecked(c)
       => /\ c.pc = "done" => c.verified # "none"
          /\ c.pc = "done" /\ c.resp = 403 => c.verified = "false"
          /\ SameBranch(c, AsFromTrustedTopic(c))

\* a notification from another topic was verified and applied to its job
C30_Witness ==
  \E h \in Handlers :
    /\ UntrustedTopicUnchecked(call[h])
    /\ call[h].pc = "done"
    /\ call[h].verified = "true"
    /\ call[h].resp = 200
    /\ call[h].dbWrites = 1
    /\ ResumeById(resumes, call[h].resumeId).status = "PROCESSING"

====
